---------------------------- MODULE Spec2Model ----------------------------
(***************************************************************************)
(* Model of the chunked processing engine of legacy2modern                 *)
(* (src/engine/agents/utilities/chunked_processor.py).                     *)
(*                                                                         *)
(*   SpecSplit : ChunkedProcessor.split_project_into_chunks, one action    *)
(*               per step of the method (sort, loop iteration, final       *)
(*               chunk and chunk sort).                                    *)
(*   Spec      : ChunkedProcessor.process_chunks_parallel, the collector   *)
(*               coroutine, one task per chunk running                     *)
(*               _process_chunk_with_retry, the semaphore, the rate lock   *)
(*               and a discrete clock.                                     *)
(*   SpecMerge : ChunkedProcessor.merge_chunk_results with                 *)
(*               _deduplicate_patterns, one action for the call, which     *)
(*               returns the merged dict or raises.                        *)
(*   FairSpec  : Spec with weak fairness on the event loop's steps, for    *)
(*               termination of process_chunks_parallel.                   *)
(*   SpecChunker : FileChunker.split_large_file followed by                *)
(*               merge_file_chunks on the pieces in any order.             *)
(*   SpecAI    : AI._rate_limit and AI._make_request                       *)
(*               (src/engine/agents/utilities/ai.py) called by several     *)
(*               coroutines sharing one AI instance.                       *)
(*                                                                         *)
(* A file_info dict is modelled by the three keys the processor reads:     *)
(* file_path (by its lower-cased suffix), file_type and content (by its    *)
(* length); a key may be missing and is then read with dict.get's default. *)
(***************************************************************************)
EXTENDS Integers, Sequences, FiniteSets, Bags, TLC

VARIABLES
    config,             \* ChunkConfig of the processor
    \* ---- split_project_into_chunks ----
    project_files,      \* the argument
    split_pc,           \* position in the method
    sorted_files,       \* sorted(project_files, key=_get_file_priority, reverse=True)
    file_idx,           \* number of sorted files consumed by the for loop
    current_chunk,
    current_tokens,
    chunk_id,
    chunks,             \* the chunk list built and returned
    \* ---- process_chunks_parallel ----
    run_pc,             \* position of the collector coroutine
    task_i,             \* index i of the task being awaited (1-based here)
    results,            \* the results dict
    semaphore,          \* free permits of self.semaphore
    rate_limit_lock,    \* TRUE while self.rate_limit_lock is held
    time_since_last,    \* time.time() - self.last_request_time
    sleep_time,         \* what is left of the sleep inside _respect_rate_limit
    task_pc,            \* per task: position in _process_chunk_with_retry
    attempt,            \* per task: loop variable attempt
    backoff,            \* per task: what is left of the backoff sleep
    task_result,        \* per task: value returned by the task
    calls,              \* per task: outcomes of the callback invocations finished so far
    since_first_call,   \* time since the latest first invocation of a callback
    first_call_gap,     \* per task: since_first_call when its callback was first invoked
    overtook,           \* history: some task returned before a task created earlier
    waited,             \* history, per task: time spent since its latest raise before
                        \* its next callback invocation, counted as far as
                        \* retry_delay * (number of attempts made)
    \* ---- merge_chunk_results ----
    chunk_results,      \* the argument
    merge_pc,           \* "idle", then "returned" or "raised"
    merged,             \* the dict returned
    \* ---- FileChunker ----
    max_chunk_size,     \* self.max_chunk_size
    content,            \* the content argument of split_large_file, a sequence of characters
    chunker_pc,         \* "idle", "split" (split_large_file returned), "merged"
    file_chunks,        \* the list returned by split_large_file
    merge_order,        \* the order in which the pieces are given to merge_file_chunks
    merged_content,     \* the string returned by merge_file_chunks
    \* ---- AI._rate_limit / AI._make_request ----
    ai_pc,              \* per caller: position in _make_request
    requests_made,      \* per caller: API requests issued so far
    ai_since_last,      \* time.time() - self._last_request
    ai_sleep,           \* per caller: what is left of the sleep inside _rate_limit
    since_request,      \* history: time since the latest API request was issued
    request_gap         \* history, per caller: since_request when its latest request was issued

splitVars == <<project_files, split_pc, sorted_files, file_idx, current_chunk,
               current_tokens, chunk_id, chunks>>
runVars   == <<run_pc, task_i, results, semaphore, rate_limit_lock,
               time_since_last, sleep_time, task_pc, attempt, backoff,
               task_result, calls, since_first_call, first_call_gap, overtook,
               waited>>
mergeVars == <<chunk_results, merge_pc, merged>>
chunkerVars == <<max_chunk_size, content, chunker_pc, file_chunks, merge_order,
                 merged_content>>
aiVars    == <<ai_pc, requests_made, ai_since_last, ai_sleep, since_request,
               request_gap>>
vars      == <<config, splitVars, runVars, mergeVars, chunkerVars, aiVars>>

---------------------------------------------------------------------------
(* Bounds of the model *)

MaxFiles         == 3   \* longest project_files list
MaxFilesPerChunk == 2   \* largest max_files_per_chunk
MaxChunks        == 2   \* longest chunk list given to process_chunks_parallel
MaxParallel      == 2   \* largest max_parallel_chunks
MaxRetry         == 2   \* largest retry_attempts
RetryDelay       == 1   \* retry_delay, in clock ticks
MaxFairInvocations == 4 \* most callback invocations (chunks times retry_attempts)
                        \* of a run checked for termination

(* ChunkConfig.rate_limit_delay, in clock ticks of one second *)
RateDelay == 2

---------------------------------------------------------------------------
(* File items *)

Suffixes     == {".html", ".css", ".js", ".jpg", ".txt"}
ContentLens  == {0, 2000, 8000}
TokenBudgets == {1500, 3000}

(* Items without a file_path key or without a content key *)
MalformedInfos ==
    {[file_type |-> "css", content |-> 2000], [file_path |-> ".js", file_type |-> ""]}

FileInfos ==
    [file_path : {".html", ".css"}, file_type : {""}, content : ContentLens]
    \cup [file_path : Suffixes, file_type : {""}, content : {2000}]
    \cup [file_path : {""}, file_type : {"html", "jpg"}, content : {2000}]
    \cup MalformedInfos

(* dict.get(key, default) *)
Get(d, key, default) == IF key \in DOMAIN d THEN d[key] ELSE default

SeqsUpTo(S, n) == UNION {[1..k -> S] : k \in 0..n}

RECURSIVE SeqSum(_)
SeqSum(s) == IF s = <<>> THEN 0 ELSE Head(s) + SeqSum(Tail(s))

RECURSIVE SeqToBag(_)
SeqToBag(s) ==
    IF s = <<>> THEN EmptyBag ELSE SetToBag({Head(s)}) (+) SeqToBag(Tail(s))

---------------------------------------------------------------------------
(* Pure helpers of ChunkedProcessor *)

_get_file_priority_swapped(file_info) ==
    IF Get(file_info, "file_path", "") = ".html" \/ Get(file_info, "file_type", "") = "html" THEN 100
    ELSE IF Get(file_info, "file_path", "") = ".css" \/ Get(file_info, "file_type", "") = "css" THEN 40
    ELSE IF Get(file_info, "file_path", "") \in {".js", ".jsx", ".ts", ".tsx"}
            \/ Get(file_info, "file_type", "") \in {"javascript", "typescript"} THEN 60
    ELSE IF Get(file_info, "file_path", "") \in {".png", ".jpg", ".jpeg", ".gif", ".svg"} THEN 80
    ELSE 20

_get_file_priority(file_info) ==
    IF Get(file_info, "file_path", "") = ".html" \/ Get(file_info, "file_type", "") = "html" THEN 100
    ELSE IF Get(file_info, "file_path", "") = ".css" \/ Get(file_info, "file_type", "") = "css" THEN 80
    ELSE IF Get(file_info, "file_path", "") \in {".js", ".jsx", ".ts", ".tsx"}
            \/ Get(file_info, "file_type", "") \in {"javascript", "typescript"} THEN 60
    ELSE IF Get(file_info, "file_path", "") \in {".png", ".jpg", ".jpeg", ".gif", ".svg"} THEN 40
    ELSE 20

_calculate_chunk_priority_ceiling(files) ==
    IF files = <<>> THEN 0
    ELSE (SeqSum([k \in 1..Len(files) |-> _get_file_priority(files[k])])
          + Len(files) - 1) \div Len(files)

_calculate_chunk_priority(files) ==
    IF files = <<>> THEN 0
    ELSE SeqSum([k \in 1..Len(files) |-> _get_file_priority(files[k])]) \div Len(files)

_estimate_tokens_shrinking(file_info) ==
    IF Get(file_info, "content", 0) = 0 THEN 1000
    ELSE 3000 - Get(file_info, "content", 0) \div 4

_estimate_tokens_missingIsFree(file_info) ==
    IF "content" \notin DOMAIN file_info THEN 0
    ELSE IF file_info["content"] = 0 THEN 1000 ELSE file_info["content"] \div 4

_estimate_tokens(file_info) ==
    IF Get(file_info, "content", 0) = 0 THEN 1000 ELSE Get(file_info, "content", 0) \div 4

(* sorted(seq, key=..., reverse=True): stable, equal keys keep their order. *)
(* keys[k] is the key of seq[k]; the result lists the positions of seq.     *)
RECURSIVE InsertDesc_unstable(_, _, _)
InsertDesc_unstable(order, k, keys) ==
    IF order = <<>> THEN <<k>>
    ELSE IF keys[Head(order)] <= keys[k] THEN <<k>> \o order
    ELSE <<Head(order)>> \o InsertDesc_unstable(Tail(order), k, keys)

RECURSIVE InsertDesc(_, _, _)
InsertDesc(order, k, keys) ==
    IF order = <<>> THEN <<k>>
    ELSE IF keys[Head(order)] < keys[k] THEN <<k>> \o order
    ELSE <<Head(order)>> \o InsertDesc(Tail(order), k, keys)

RECURSIVE SortOrderDesc(_, _)
SortOrderDesc(keys, n) ==
    IF n = 0 THEN <<>> ELSE InsertDesc(SortOrderDesc(keys, n - 1), n, keys)

SortedReverse(seq, keys) ==
    LET order == SortOrderDesc(keys, Len(seq))
    IN  [p \in 1..Len(seq) |-> seq[order[p]]]

SortFilesByPriority(files) ==
    SortedReverse(files, [k \in 1..Len(files) |-> _get_file_priority(files[k])])

SortChunksByPriority_ascending(cs) ==
    SortedReverse(cs, [k \in 1..Len(cs) |-> 0 - cs[k].priority])

SortChunksByPriority(cs) ==
    SortedReverse(cs, [k \in 1..Len(cs) |-> cs[k].priority])

(* The test of lines 64-65. *)
ExceedsLimits_offByOne(chunk, tokens, file_tokens) ==
    \/ Len(chunk) > config.max_files_per_chunk
    \/ tokens + file_tokens > config.max_tokens_per_chunk

ExceedsLimits_noTokenTest(chunk, tokens, file_tokens) ==
    Len(chunk) >= config.max_files_per_chunk

ExceedsLimits_exclusive(chunk, tokens, file_tokens) ==
    \/ Len(chunk) >= config.max_files_per_chunk
    \/ tokens + file_tokens >= config.max_tokens_per_chunk

ExceedsLimits(chunk, tokens, file_tokens) ==
    \/ Len(chunk) >= config.max_files_per_chunk
    \/ tokens + file_tokens > config.max_tokens_per_chunk

(* line 79: the running total of the chunk that file_info starts *)
NewChunkTokens_carries(tokens, file_tokens) == tokens + file_tokens

NewChunkTokens(tokens, file_tokens) == file_tokens

(* ProcessingChunk(chunk_id=f"chunk_{chunk_id}", files=current_chunk.copy(), ...) *)
ProcessingChunk_dropsFirst(id, files, tokens) ==
    [chunk_id |-> id, files |-> Tail(files), estimated_tokens |-> tokens,
     priority |-> _calculate_chunk_priority(files)]

ProcessingChunk(id, files, tokens) ==
    [chunk_id |-> id, files |-> files, estimated_tokens |-> tokens,
     priority |-> _calculate_chunk_priority(files)]

---------------------------------------------------------------------------
(* State of an idle processor, right after __init__ *)

RunIdle ==
    /\ run_pc = "idle"
    /\ task_i = 0
    /\ results = [successful_chunks |-> <<>>, failed_chunks |-> <<>>, total_chunks |-> 0]
    /\ semaphore = config.max_parallel_chunks
    /\ rate_limit_lock = FALSE
    /\ time_since_last = config.rate_limit_delay
    /\ sleep_time = 0
    /\ task_pc = <<>>
    /\ attempt = <<>>
    /\ backoff = <<>>
    /\ task_result = <<>>
    /\ calls = <<>>
    /\ since_first_call = config.rate_limit_delay
    /\ first_call_gap = <<>>
    /\ overtook = FALSE
    /\ waited = <<>>

(* the merged dict as lines 249-260 build it, for a list of n results *)
EmptyMerged(n) ==
    [status |-> "success", file_analyses |-> <<>>, patterns |-> <<>>,
     dependencies |-> <<>>,
     summary |-> [total_files |-> 0, successful_files |-> 0, failed_files |-> 0,
                  total_chunks |-> n]]

MergeIdle ==
    /\ chunk_results = <<>>
    /\ merge_pc = "idle"
    /\ merged = EmptyMerged(0)

(* rate_limit_delay of AI(), ai.py line 37, in clock ticks *)
AIRateDelay == 2

ChunkerIdle ==
    /\ max_chunk_size = 1
    /\ content = <<>>
    /\ chunker_pc = "idle"
    /\ file_chunks = <<>>
    /\ merge_order = <<>>
    /\ merged_content = <<>>

AIIdle ==
    /\ ai_pc = <<>>
    /\ requests_made = <<>>
    /\ ai_since_last = AIRateDelay
    /\ ai_sleep = <<>>
    /\ since_request = AIRateDelay
    /\ request_gap = <<>>

SplitIdle ==
    /\ split_pc = "idle"
    /\ sorted_files = <<>>
    /\ file_idx = 0
    /\ current_chunk = <<>>
    /\ current_tokens = 0
    /\ chunk_id = 0

---------------------------------------------------------------------------
(* split_project_into_chunks *)

(* ChunkConfig() with the default limits of lines 26-27, and a project of *)
(* seven html files of 40000 characters                                  *)
DefaultLimits ==
    [max_files_per_chunk |-> 5, max_tokens_per_chunk |-> 50000,
     max_parallel_chunks |-> MaxParallel, rate_limit_delay |-> RateDelay,
     retry_attempts |-> MaxRetry, retry_delay |-> RetryDelay]

SevenHtmlFiles ==
    [k \in 1..7 |-> [file_path |-> ".html", file_type |-> "", content |-> 40000]]

InitSplit ==
    /\ \/ /\ config \in [max_files_per_chunk : 1..MaxFilesPerChunk,
                         max_tokens_per_chunk : TokenBudgets,
                         max_parallel_chunks : {MaxParallel},
                         rate_limit_delay : {RateDelay},
                         retry_attempts : {MaxRetry},
                         retry_delay : {RetryDelay}]
          /\ project_files \in SeqsUpTo(FileInfos, MaxFiles)
       \/ /\ config = DefaultLimits
          /\ project_files \in SeqsUpTo(FileInfos, MaxFiles) \cup {SevenHtmlFiles}
    /\ chunks = <<>>
    /\ SplitIdle
    /\ RunIdle
    /\ MergeIdle
    /\ ChunkerIdle
    /\ AIIdle

(* lines 52-58: initialise the locals and sort the files *)
SplitSort ==
    /\ split_pc = "idle"
    /\ sorted_files' = SortFilesByPriority(project_files)
    /\ chunks' = <<>>
    /\ current_chunk' = <<>>
    /\ current_tokens' = 0
    /\ chunk_id' = 0
    /\ file_idx' = 0
    /\ split_pc' = "loop"
    /\ UNCHANGED <<config, project_files, runVars, mergeVars, chunkerVars, aiVars>>

(* lines 60-82: one iteration of the for loop *)
SplitLoopStep ==
    /\ split_pc = "loop"
    /\ file_idx < Len(sorted_files)
    /\ LET file_info   == sorted_files[file_idx + 1]
           file_tokens == _estimate_tokens(file_info)
       IN  IF ExceedsLimits(current_chunk, current_tokens, file_tokens)
           THEN /\ IF current_chunk # <<>>
                   THEN /\ chunks' = Append(chunks,
                               ProcessingChunk(chunk_id, current_chunk, current_tokens))
                        /\ chunk_id' = chunk_id + 1
                   ELSE UNCHANGED <<chunks, chunk_id>>
                /\ current_chunk' = <<file_info>>
                /\ current_tokens' = NewChunkTokens(current_tokens, file_tokens)
           ELSE /\ current_chunk' = Append(current_chunk, file_info)
                /\ current_tokens' = current_tokens + file_tokens
                /\ UNCHANGED <<chunks, chunk_id>>
    /\ file_idx' = file_idx + 1
    /\ UNCHANGED <<config, project_files, split_pc, sorted_files, runVars, mergeVars, chunkerVars, aiVars>>

(* lines 84-100: add the final chunk, sort the chunks by priority, return *)
SplitFinish ==
    /\ split_pc = "loop"
    /\ file_idx = Len(sorted_files)
    /\ chunks' = SortChunksByPriority(
                    IF current_chunk # <<>>
                    THEN Append(chunks,
                             ProcessingChunk(chunk_id, current_chunk, current_tokens))
                    ELSE chunks)
    /\ split_pc' = "done"
    /\ UNCHANGED <<config, project_files, sorted_files, file_idx, current_chunk,
                   current_tokens, chunk_id, runVars, mergeVars, chunkerVars, aiVars>>

NextSplit == SplitSort \/ SplitLoopStep \/ SplitFinish

SpecSplit == InitSplit /\ [][NextSplit]_vars

---------------------------------------------------------------------------
(* Properties of split_project_into_chunks *)

RECURSIVE AllChunkFiles(_)
AllChunkFiles(cs) ==
    IF cs = <<>> THEN <<>> ELSE Head(cs).files \o AllChunkFiles(Tail(cs))

Returned == split_pc = "done"

ItemCost(f) == IF Get(f, "content", 0) = 0 THEN 1000 ELSE Get(f, "content", 0) \div 4

\* C7: the items of the returned chunks, taken as a multiset, are exactly the
\* input items: nothing is dropped and nothing appears twice, also for items
\* with empty or missing content and for items that alone exceed the budget.
C7_PartitionComplete ==
    Returned => SeqToBag(AllChunkFiles(chunks)) = SeqToBag(project_files)

C7_Witness ==
    /\ Returned
    /\ Len(chunks) >= 2
    /\ \E k \in 1..Len(project_files) : Get(project_files[k], "content", 0) = 0
    /\ \E k \in 1..Len(project_files) :
           ItemCost(project_files[k]) > config.max_tokens_per_chunk
    /\ \E j, k \in 1..Len(project_files) : j # k /\ project_files[j] = project_files[k]

\* C8: a returned chunk with more than one item costs at most
\* max_tokens_per_chunk; a chunk above the budget holds exactly one item and
\* that item alone is above the budget.
C8_CostBound ==
    Returned =>
        \A k \in 1..Len(chunks) :
            /\ Len(chunks[k].files) > 1 =>
                   chunks[k].estimated_tokens <= config.max_tokens_per_chunk
            /\ chunks[k].estimated_tokens > config.max_tokens_per_chunk =>
                   /\ Len(chunks[k].files) = 1
                   /\ ItemCost(chunks[k].files[1]) > config.max_tokens_per_chunk

C8_Witness ==
    /\ Returned
    /\ \E k \in 1..Len(chunks) :
           chunks[k].estimated_tokens > config.max_tokens_per_chunk
    /\ \E k \in 1..Len(chunks) :
           /\ Len(chunks[k].files) > 1
           /\ chunks[k].estimated_tokens = config.max_tokens_per_chunk

\* C9: with max_files_per_chunk >= 1 every returned chunk holds at most
\* max_files_per_chunk items.
C9_CountBound ==
    (Returned /\ config.max_files_per_chunk >= 1) =>
        \A k \in 1..Len(chunks) : Len(chunks[k].files) <= config.max_files_per_chunk

C9_Witness ==
    /\ Returned
    /\ config.max_files_per_chunk = 2
    /\ Len(chunks) >= 2
    /\ Len(chunks[1].files) = 2

IsHtmlItem(f) == Get(f, "file_path", "") = ".html" \/ (Get(f, "file_path", "") = "" /\ Get(f, "file_type", "") = "html")
IsCssItem(f)  == Get(f, "file_path", "") = ".css"  \/ (Get(f, "file_path", "") = "" /\ Get(f, "file_type", "") = "css")
IsJpgItem(f)  == Get(f, "file_path", "") = ".jpg"  \/ (Get(f, "file_path", "") = "" /\ Get(f, "file_type", "") = "jpg")

(* Rank of a file by the suffix of its path: markup, stylesheet, script, *)
(* image, other.                                                         *)
SuffixTier(f) ==
    CASE Get(f, "file_path", "") = ".html" -> 5
      [] Get(f, "file_path", "") = ".css"  -> 4
      [] Get(f, "file_path", "") = ".js"   -> 3
      [] Get(f, "file_path", "") = ".jpg"  -> 2
      [] OTHER                 -> 1

HtmlJpgCssInput ==
    /\ Len(project_files) = 3
    /\ \E h, j, c \in 1..3 :
           /\ {h, j, c} = {1, 2, 3}
           /\ IsHtmlItem(project_files[h])
           /\ IsJpgItem(project_files[j])
           /\ IsCssItem(project_files[c])

CreatedAs(n) == CHOOSE c \in {chunks[k] : k \in 1..Len(chunks)} : c.chunk_id = n

\* C11: partitioning is greedy with an inclusive cost boundary: a chunk is
\* followed by another one only if the next item would have made it exceed
\* max_files_per_chunk items or max_tokens_per_chunk cost (a cost equal to
\* the budget does not close it); 7 html items of cost 10000 with limits 5
\* and 50000 give 2 chunks, of 5 items (cost 50000) and 2 items (cost 20000).
C11_GreedyInclusive ==
    Returned =>
        /\ \A n \in 0..(Len(chunks) - 2) :
               \/ Len(CreatedAs(n).files) + 1 > config.max_files_per_chunk
               \/ CreatedAs(n).estimated_tokens + ItemCost(CreatedAs(n + 1).files[1])
                      > config.max_tokens_per_chunk
        /\ (project_files = SevenHtmlFiles /\ config = DefaultLimits) =>
               /\ Len(chunks) = 2
               /\ Len(chunks[1].files) = 5 /\ chunks[1].estimated_tokens = 50000
               /\ Len(chunks[2].files) = 2 /\ chunks[2].estimated_tokens = 20000

C11_Witness ==
    /\ Returned
    /\ project_files = SevenHtmlFiles
    /\ Len(chunks) = 2
    /\ chunks[1].estimated_tokens = config.max_tokens_per_chunk

Priorities == {100, 80, 60, 40, 20}

(* the items of s that have priority p, in the order of s *)
WithPriority(s, p) ==
    LET Has(f) == _get_file_priority(f) = p IN SelectSeq(s, Has)

\* C20: the items of the returned chunks, read chunk after chunk, are the
\* input list stably sorted by item priority descending: priorities never
\* increase along the list, and the items of one priority keep the order
\* they have in the input, inside a chunk and across chunks.
C20_StableOrder ==
    Returned =>
        LET out == AllChunkFiles(chunks)
        IN  /\ Len(out) = Len(project_files)
            /\ \A k \in 1..(Len(out) - 1) :
                   _get_file_priority(out[k]) >= _get_file_priority(out[k + 1])
            /\ \A p \in Priorities :
                   WithPriority(out, p) = WithPriority(project_files, p)

C20_Witness ==
    /\ Returned
    /\ config.max_files_per_chunk = 1
    /\ Len(project_files) = 3
    /\ _get_file_priority(project_files[1]) = _get_file_priority(project_files[2])
    /\ project_files[1] # project_files[2]
    /\ _get_file_priority(project_files[3]) > _get_file_priority(project_files[1])
    /\ Len(chunks) = 3
    /\ chunks[2].files = <<project_files[1]>>
    /\ chunks[3].files = <<project_files[2]>>

Malformed(f) == "file_path" \notin DOMAIN f \/ "content" \notin DOMAIN f

HasMalformed == \E k \in 1..Len(project_files) : Malformed(project_files[k])

\* C18 as claimed: when an input item lacks its file_path or its content,
\* the call fails as a whole and returns no chunk list.
C18_MalformedRejected == HasMalformed => ~Returned

\* C18 as amended: an input item that lacks file_path or content is not
\* rejected; the call returns the complete chunk list with the item in one
\* of the chunks, a missing content counted with the default estimate of
\* 1000 and a missing file_path read as ''.
C18_MalformedTolerated ==
    (Returned /\ HasMalformed) =>
        \A k \in 1..Len(project_files) :
            Malformed(project_files[k]) =>
                \E c \in 1..Len(chunks) :
                    /\ \E j \in 1..Len(chunks[c].files) :
                           chunks[c].files[j] = project_files[k]
                    /\ "content" \notin DOMAIN project_files[k] =>
                           chunks[c].estimated_tokens >= 1000
                    /\ "file_path" \notin DOMAIN project_files[k] =>
                           chunks[c].priority >= 20

C18_Witness ==
    /\ Returned
    /\ Len(project_files) = 3
    /\ "content" \notin DOMAIN project_files[1]
    /\ "file_path" \notin DOMAIN project_files[2]
    /\ ~Malformed(project_files[3])
    /\ Len(AllChunkFiles(chunks)) = 3

ContentLen(f) == Get(f, "content", 0)

SingleFileChunks == {k \in 1..Len(chunks) : Len(chunks[k].files) = 1}

\* C21 as claimed: the estimate is monotonic in the length of the content,
\* empty or missing content included.
C21_Monotonic ==
    Returned =>
        \A j, k \in SingleFileChunks :
            ContentLen(chunks[j].files[1]) <= ContentLen(chunks[k].files[1]) =>
                chunks[j].estimated_tokens <= chunks[k].estimated_tokens

\* C21 as amended: among items with non-empty content the estimate is
\* monotonic in the length of the content; an item with empty or missing
\* content is estimated at 1000, which is more than the estimate of every
\* content shorter than 4000 characters.
C21_MonotonicNonEmpty ==
    Returned =>
        /\ \A j, k \in SingleFileChunks :
               (/\ ContentLen(chunks[j].files[1]) > 0
                /\ ContentLen(chunks[j].files[1]) <= ContentLen(chunks[k].files[1])) =>
                   chunks[j].estimated_tokens <= chunks[k].estimated_tokens
        /\ \A j \in SingleFileChunks :
               ContentLen(chunks[j].files[1]) = 0 => chunks[j].estimated_tokens = 1000

C21_Witness ==
    /\ Returned
    /\ Len(chunks) = 3
    /\ SingleFileChunks = {1, 2, 3}
    /\ {ContentLen(chunks[k].files[1]) : k \in 1..3} = {0, 2000, 8000}
    /\ {chunks[k].estimated_tokens : k \in 1..3} = {1000, 500, 2000}

\* C22: the estimated_tokens of every returned chunk is the sum of the
\* estimates of exactly the items in its files list.
C22_ChunkCostIsSum ==
    Returned =>
        \A k \in 1..Len(chunks) :
            chunks[k].estimated_tokens =
                SeqSum([j \in 1..Len(chunks[k].files) |-> ItemCost(chunks[k].files[j])])

C22_Witness ==
    /\ Returned
    /\ Len(chunks) = 2
    /\ Len(chunks[1].files) = 2 /\ chunks[1].estimated_tokens = 1500
    /\ Len(chunks[2].files) = 1 /\ chunks[2].estimated_tokens = 500

PrioritySum(files) ==
    SeqSum([j \in 1..Len(files) |-> _get_file_priority(files[j])])

\* C23: every returned chunk has the floor of the mean of its items'
\* priorities as its priority, and the ids of n returned chunks are exactly
\* chunk_0 .. chunk_(n-1), each once.
C23_FloorMeanAndIds ==
    Returned =>
        /\ \A k \in 1..Len(chunks) :
               /\ chunks[k].priority * Len(chunks[k].files) <= PrioritySum(chunks[k].files)
               /\ PrioritySum(chunks[k].files) < (chunks[k].priority + 1) * Len(chunks[k].files)
        /\ {chunks[k].chunk_id : k \in 1..Len(chunks)} = 0..(Len(chunks) - 1)

C23_Witness ==
    /\ Returned
    /\ \E k \in 1..Len(chunks) :
           /\ Len(chunks[k].files) = 3
           /\ PrioritySum(chunks[k].files) = 260
           /\ chunks[k].priority = 86

\* C28: in the returned list the chunk at position i (counted from 0) has
\* the id chunk_i: the sort by priority never moves a chunk, so the
\* positional id of a task is the id of its chunk.
C28_PositionIsId ==
    Returned => \A i \in 1..Len(chunks) : chunks[i].chunk_id = i - 1

C28_Witness ==
    /\ Returned
    /\ Len(chunks) = 3
    /\ chunks[1].priority > chunks[2].priority
    /\ chunks[2].priority = chunks[3].priority
    /\ chunks[3].chunk_id = 2

---------------------------------------------------------------------------
(* process_chunks_parallel                                                 *)
(*                                                                         *)
(* asyncio runs one coroutine at a time and switches only at an await that *)
(* suspends.  The collector suspends in the sleep of _respect_rate_limit   *)
(* and in "await task"; a task suspends while it waits for a permit, while *)
(* its callback is awaited and in the backoff sleep.  Each action below is *)
(* the code run between two such points.  Time is a discrete clock.        *)
(* The except branch of the collector (lines 183-189) is not an action:    *)
(* _process_chunk_with_retry catches every Exception, so "await task"      *)
(* never raises one.                                                       *)

(* the tasks list of lines 160-165: empty until the run creates the tasks *)
Tasks == DOMAIN task_pc

(* retry_attempts of ChunkConfig(), line 30 *)
DefaultRetryAttempts == 3

(* The runs: every configuration within the bounds over up to MaxChunks   *)
(* chunks, and a run of one chunk with the default retry_attempts.        *)
InitRun ==
    /\ config \in [max_files_per_chunk : {MaxFilesPerChunk},
                   max_tokens_per_chunk : {1500},
                   max_parallel_chunks : 1..MaxParallel,
                   rate_limit_delay : {RateDelay},
                   retry_attempts : 0..MaxRetry \cup {DefaultRetryAttempts},
                   retry_delay : {RetryDelay}]
    /\ project_files = <<>>
    /\ \E m \in 0..MaxChunks :
           /\ config.retry_attempts > MaxRetry => (m = 1 /\ config.max_parallel_chunks = 1)
           /\ chunks = [k \in 1..m |->
                           ProcessingChunk(k - 1,
                               <<[file_path |-> ".html", file_type |-> "", content |-> 2000]>>,
                               500)]
    /\ SplitIdle
    /\ RunIdle
    /\ MergeIdle
    /\ ChunkerIdle
    /\ AIIdle

(* Time.  The code reads the clock only to take differences, so the model   *)
(* keeps the differences: time_since_last and since_first_call count up,    *)
(* the sleeps count down.  A difference of rate_limit_delay or more is kept *)
(* as rate_limit_delay: the code and the properties only compare it with    *)
(* rate_limit_delay.  last_request_time starts at 0.0, ages ago.            *)
Aged(t) == IF t < config.rate_limit_delay THEN t + 1 ELSE t

Slept_stuck(t) == t

Slept(t) == IF t > 0 THEN t - 1 ELSE 0

(* _respect_rate_limit, lines 235-245, up to its first suspension: the lock *)
(* is free whenever the collector gets here, so acquiring it does not       *)
(* suspend.                                                                 *)
RespectRateLimit ==
    IF time_since_last < config.rate_limit_delay
    THEN /\ rate_limit_lock' = TRUE
         /\ sleep_time' = config.rate_limit_delay - time_since_last
         /\ run_pc' = "gate_sleep"
         /\ UNCHANGED time_since_last
    ELSE /\ time_since_last' = 0
         /\ run_pc' = "await"
         /\ UNCHANGED <<rate_limit_lock, sleep_time>>

(* lines 150-171: build results, create one task per chunk, enter the loop *)
RunStart ==
    /\ run_pc = "idle"
    /\ ~rate_limit_lock
    /\ results' = [successful_chunks |-> <<>>, failed_chunks |-> <<>>,
                   total_chunks |-> Len(chunks)]
    /\ task_pc' = [k \in 1..Len(chunks) |-> "created"]
    /\ attempt' = [k \in 1..Len(chunks) |-> 0]
    /\ backoff' = [k \in 1..Len(chunks) |-> 0]
    /\ task_result' = [k \in 1..Len(chunks) |->
                          [chunk_id |-> -1, success |-> FALSE, error |-> "", attempt |-> 0]]
    /\ calls' = [k \in 1..Len(chunks) |-> <<>>]
    /\ first_call_gap' = [k \in 1..Len(chunks) |-> -1]
    /\ waited' = [k \in 1..Len(chunks) |-> 0]
    /\ IF Len(chunks) = 0
       THEN /\ run_pc' = "returned"
            /\ task_i' = 0
            /\ UNCHANGED <<rate_limit_lock, time_since_last, sleep_time>>
       ELSE /\ task_i' = 1
            /\ RespectRateLimit
    /\ UNCHANGED <<config, splitVars, mergeVars, chunkerVars, aiVars, semaphore, since_first_call, overtook>>

(* lines 243-245: the sleep of _respect_rate_limit is over *)
GateWake ==
    /\ run_pc = "gate_sleep"
    /\ sleep_time = 0
    /\ time_since_last' = 0
    /\ rate_limit_lock' = FALSE
    /\ run_pc' = "await"
    /\ UNCHANGED <<config, splitVars, mergeVars, chunkerVars, aiVars, task_i, results, semaphore, sleep_time,
                   task_pc, attempt, backoff, task_result, calls,
                   since_first_call, first_call_gap, overtook,
                   waited>>

(* lines 176-181: file the result of a task *)
Collected_dropsFailures(res, chunk_result) ==
    IF chunk_result.success
    THEN [res EXCEPT !.successful_chunks = Append(@, chunk_result)]
    ELSE res

Collected_prepends(res, chunk_result) ==
    IF chunk_result.success
    THEN [res EXCEPT !.successful_chunks = <<chunk_result>> \o @]
    ELSE [res EXCEPT !.failed_chunks = <<chunk_result>> \o @]

Collected(res, chunk_result) ==
    IF chunk_result.success
    THEN [res EXCEPT !.successful_chunks = Append(@, chunk_result)]
    ELSE [res EXCEPT !.failed_chunks = Append(@, chunk_result)]

(* lines 168-191: "await task" returns; file the result, go on to the next  *)
(* task's rate gate or return                                               *)
Collect ==
    /\ run_pc = "await"
    /\ task_pc[task_i] = "done"
    /\ results' = Collected(results, task_result[task_i])
    /\ IF task_i = Len(chunks)
       THEN /\ run_pc' = "returned"
            /\ UNCHANGED <<task_i, rate_limit_lock, time_since_last, sleep_time>>
       ELSE /\ task_i' = task_i + 1
            /\ RespectRateLimit
    /\ UNCHANGED <<config, splitVars, mergeVars, chunkerVars, aiVars, semaphore, task_pc, attempt, backoff,
                   task_result, calls, since_first_call, first_call_gap, overtook,
                   waited>>

(* The chunk tasks run while the collector is suspended. *)
CollectorSuspended == run_pc \in {"gate_sleep", "await"}

(* "async with self.semaphore" can enter *)
CanAcquire_always == TRUE

CanAcquire == semaphore > 0

(* line 219: the length of the backoff sleep after attempt a has raised *)
BackoffDelay_constant(a) == config.retry_delay

BackoffDelay(a) == config.retry_delay * (a + 1)

(* str(e) of the exception raised by invocation n of the callback *)
ExceptionText(n) ==
    CASE n = 1 -> "raised by invocation 1"
      [] n = 2 -> "raised by invocation 2"
      [] n = 3 -> "raised by invocation 3"
      [] OTHER -> "raised by a later invocation"

(* line 218: a failed attempt is followed by a backoff and another attempt *)
MayRetry_givesUpEarly(a) == a < config.retry_attempts - 2

MayRetry(a) == a < config.retry_attempts - 1

(* lines 221-226 and 228-233: the record of a chunk that used up its attempts *)
ExhaustedResult_success(chunk, err, n) ==
    [chunk_id |-> chunk.chunk_id, success |-> TRUE, error |-> err, attempt |-> n]

ExhaustedResult_zeroBased(chunk, err, n) ==
    [chunk_id |-> chunk.chunk_id, success |-> FALSE, error |-> err, attempt |-> n - 1]

ExhaustedResult(chunk, err, n) ==
    [chunk_id |-> chunk.chunk_id, success |-> FALSE, error |-> err, attempt |-> n]

(* lines 213, 221 and 228: _process_chunk_with_retry returns, so the task *)
(* is done; the history variable notes whether a task created earlier is  *)
(* still unfinished                                                       *)
Finished(k) ==
    overtook' = (overtook \/ \E j \in Tasks : j < k /\ task_pc[j] # "done")

(* "async with self.semaphore" is left: the permit goes back *)
Released_leaks(s) == s

Released(s) == s + 1

(* "async with self.semaphore" is entered: a permit is taken *)
Acquired_free(s) == s

Acquired(s) == s - 1

(* lines 209-210: take a permit and call processor_func, as iteration a of *)
(* the retry loop                                                          *)
Invoke(k, a) ==
    /\ semaphore' = Acquired(semaphore)
    /\ task_pc' = [task_pc EXCEPT ![k] = "running"]
    /\ IF a = 0
       THEN /\ first_call_gap' = [first_call_gap EXCEPT ![k] = since_first_call]
            /\ since_first_call' = 0
       ELSE UNCHANGED <<first_call_gap, since_first_call>>

(* lines 207-210: the top of the retry loop with loop variable a, run up to *)
(* its first suspension: leave the loop when range(retry_attempts) is used  *)
(* up, else enter "async with self.semaphore" and call processor_func, or   *)
(* wait for a permit                                                        *)
EnterLoop(k, a) ==
    /\ attempt' = [attempt EXCEPT ![k] = a]
    /\ IF a >= config.retry_attempts
       THEN /\ task_result' = [task_result EXCEPT ![k] =
                   ExhaustedResult(chunks[k], "Max retry attempts exceeded",
                                   config.retry_attempts)]
            /\ task_pc' = [task_pc EXCEPT ![k] = "done"]
            /\ Finished(k)
            /\ UNCHANGED <<semaphore, since_first_call, first_call_gap>>
       ELSE IF CanAcquire
       THEN /\ Invoke(k, a)
            /\ UNCHANGED <<task_result, overtook>>
       ELSE /\ task_pc' = [task_pc EXCEPT ![k] = "acquire"]
            /\ UNCHANGED <<semaphore, since_first_call, first_call_gap, task_result,
                           overtook>>

(* the task created at lines 162-164 gets its first turn *)
TaskStart(k) ==
    /\ CollectorSuspended
    /\ task_pc[k] = "created"
    /\ EnterLoop(k, 0)
    /\ UNCHANGED <<config, splitVars, mergeVars, chunkerVars, aiVars, run_pc, task_i, results, rate_limit_lock,
                   time_since_last, sleep_time, backoff, calls,
                   waited>>

(* line 209: a task waiting in "async with self.semaphore" gets a permit and *)
(* calls processor_func                                                      *)
TaskAcquired(k) ==
    /\ CollectorSuspended
    /\ task_pc[k] = "acquire"
    /\ CanAcquire
    /\ Invoke(k, attempt[k])
    /\ UNCHANGED <<config, splitVars, mergeVars, chunkerVars, aiVars, run_pc, task_i, results, rate_limit_lock,
                   time_since_last, sleep_time, attempt, backoff, task_result, calls,
                   overtook,
                   waited>>

(* lines 210-213: the callback returns a dict, with success true or false; *)
(* the permit is released and the dict is the task's result                *)
TaskCallbackReturns(k) ==
    /\ CollectorSuspended
    /\ task_pc[k] = "running"
    /\ \E ok \in BOOLEAN :
           /\ task_result' = [task_result EXCEPT ![k] =
                  [chunk_id |-> chunks[k].chunk_id, success |-> ok,
                   error |-> IF ok THEN "" ELSE "reported",
                   attempt |-> attempt[k] + 1]]
           /\ calls' = [calls EXCEPT ![k] = Append(@, IF ok THEN "ok" ELSE "failure")]
    /\ semaphore' = Released(semaphore)
    /\ task_pc' = [task_pc EXCEPT ![k] = "done"]
    /\ Finished(k)
    /\ UNCHANGED <<config, splitVars, mergeVars, chunkerVars, aiVars, run_pc, task_i, results, rate_limit_lock,
                   time_since_last, sleep_time, attempt, backoff,
                   since_first_call, first_call_gap,
                   waited>>

(* lines 215-226: the callback raises; the permit is released, then either *)
(* the backoff sleep starts or the failure record is returned              *)
TaskCallbackRaises(k) ==
    /\ CollectorSuspended
    /\ task_pc[k] = "running"
    /\ calls' = [calls EXCEPT ![k] = Append(@, "raise")]
    /\ semaphore' = Released(semaphore)
    /\ IF MayRetry(attempt[k])
       THEN /\ backoff' = [backoff EXCEPT ![k] = BackoffDelay(attempt[k])]
            /\ task_pc' = [task_pc EXCEPT ![k] = "backoff"]
            /\ UNCHANGED <<task_result, overtook>>
       ELSE /\ task_result' = [task_result EXCEPT ![k] =
                   ExhaustedResult(chunks[k], ExceptionText(attempt[k] + 1),
                                   attempt[k] + 1)]
            /\ task_pc' = [task_pc EXCEPT ![k] = "done"]
            /\ Finished(k)
            /\ UNCHANGED backoff
    /\ UNCHANGED <<config, splitVars, mergeVars, chunkerVars, aiVars, run_pc, task_i, results, rate_limit_lock,
                   time_since_last, sleep_time, attempt,
                   since_first_call, first_call_gap>>
    /\ waited' = [waited EXCEPT ![k] = 0]

(* line 219 then 207: the backoff sleep is over, the loop goes on with the *)
(* next value of attempt                                                   *)
TaskBackoffOver(k) ==
    /\ CollectorSuspended
    /\ task_pc[k] = "backoff"
    /\ backoff[k] = 0
    /\ EnterLoop(k, attempt[k] + 1)
    /\ UNCHANGED <<config, splitVars, mergeVars, chunkerVars, aiVars, run_pc, task_i, results, rate_limit_lock,
                   time_since_last, sleep_time, backoff, calls,
                   waited>>

(* some coroutine can run without waiting for time or for a callback *)
Ready ==
    \/ run_pc = "gate_sleep" /\ sleep_time = 0
    \/ run_pc = "await" /\ task_pc[task_i] = "done"
    \/ \E k \in Tasks :
           \/ task_pc[k] = "created"
           \/ task_pc[k] = "acquire" /\ CanAcquire
           \/ task_pc[k] = "backoff" /\ backoff[k] = 0

(* One clock tick.  Time passes only while the event loop is idle: every *)
(* unfinished coroutine is in a sleep or behind a callback that is still *)
(* awaited.                                                              *)
Tick ==
    /\ CollectorSuspended
    /\ ~Ready
    /\ time_since_last' = Aged(time_since_last)
    /\ since_first_call' = Aged(since_first_call)
    /\ sleep_time' = Slept(sleep_time)
    /\ backoff' = [k \in Tasks |-> Slept(backoff[k])]
    /\ UNCHANGED <<config, splitVars, mergeVars, chunkerVars, aiVars, run_pc, task_i, results, semaphore,
                   rate_limit_lock, task_pc, attempt, task_result, calls,
                   first_call_gap, overtook>>
    /\ waited' = [k \in Tasks |->
                      IF \/ task_pc[k] = "backoff"
                            /\ waited[k] < config.retry_delay * (attempt[k] + 1)
                         \/ task_pc[k] = "acquire"
                            /\ waited[k] < config.retry_delay * attempt[k]
                      THEN waited[k] + 1 ELSE waited[k]]

Next ==
    \/ RunStart
    \/ GateWake
    \/ Collect
    \/ \E k \in Tasks : TaskStart(k)
    \/ \E k \in Tasks : TaskAcquired(k)
    \/ \E k \in Tasks : TaskCallbackReturns(k)
    \/ \E k \in Tasks : TaskCallbackRaises(k)
    \/ \E k \in Tasks : TaskBackoffOver(k)
    \/ Tick

Spec == InitRun /\ [][Next]_vars

(* What one chunk task can do *)
TaskStep(k) ==
    /\ k \in Tasks
    /\ \/ TaskStart(k)
       \/ TaskAcquired(k)
       \/ TaskBackoffOver(k)

(* The callback awaited by task k comes back *)
CallbackEnds(k) ==
    /\ k \in Tasks
    /\ \/ TaskCallbackReturns(k)
       \/ TaskCallbackRaises(k)

(* The event loop runs every coroutine that is ready, time passes, and *)
(* every callback that was invoked returns or raises in the end.       *)
Fairness ==
    /\ WF_vars(RunStart)
    /\ WF_vars(GateWake)
    /\ WF_vars(Collect)
    /\ WF_vars(Tick)
    /\ \A k \in 1..MaxChunks : WF_vars(TaskStep(k))
    /\ \A k \in 1..MaxChunks : WF_vars(CallbackEnds(k))

(* The runs checked for termination: those of InitRun that can make at *)
(* most MaxFairInvocations callback invocations.                       *)
InitFair ==
    /\ InitRun
    /\ Len(chunks) * config.retry_attempts <= MaxFairInvocations

FairSpec == InitFair /\ [][Next]_vars /\ Fairness


---------------------------------------------------------------------------
(* Properties of process_chunks_parallel *)

RunReturned == run_pc = "returned"

InList(list, k) ==
    \E p \in 1..Len(list) : list[p].chunk_id = chunks[k].chunk_id

InSuccessful(k) == InList(results.successful_chunks, k)
InFailed(k)     == InList(results.failed_chunks, k)

AlwaysRaised(k) == \A p \in 1..Len(calls[k]) : calls[k][p] = "raise"
NeverSucceeded(k) == \A p \in 1..Len(calls[k]) : calls[k][p] \in {"raise", "failure"}
Succeeded(k) == calls[k] # <<>> /\ calls[k][Len(calls[k])] = "ok"

Executing == {k \in Tasks : task_pc[k] = "running"}

(* number of callback invocations made for chunk k so far *)
Invocations(k) == Len(calls[k]) + IF task_pc[k] = "running" THEN 1 ELSE 0

\* C1: whatever the callback does (succeeds, returns a failure, raises on any
\* attempt), the returned result has len(successful_chunks) +
\* len(failed_chunks) = M and total_chunks = M for the M chunks given.
C1_RunComplete ==
    RunReturned =>
        /\ Len(results.successful_chunks) + Len(results.failed_chunks) = Len(chunks)
        /\ results.total_chunks = Len(chunks)

C1_Witness ==
    /\ RunReturned
    /\ Len(chunks) = 2
    /\ \E j, k \in Tasks :
           /\ calls[j] = <<"raise", "ok">>
           /\ calls[k] = <<"failure">>

\* C2: in a run over two or more chunks, a chunk whose callback raises on
\* every attempt is recorded in failed_chunks, every other chunk whose
\* callback succeeds is recorded in successful_chunks, and the run returns
\* (reaching the return is the only way the run ends in the model).
C2_Isolation ==
    (RunReturned /\ Len(chunks) >= 2) =>
        \A k \in Tasks :
            (calls[k] # <<>> /\ AlwaysRaised(k)) =>
                /\ InFailed(k)
                /\ ~InSuccessful(k)
                /\ \A j \in Tasks \ {k} :
                       Succeeded(j) => (InSuccessful(j) /\ ~InFailed(j))

C2_Witness ==
    /\ RunReturned
    /\ Len(chunks) >= 2
    /\ config.max_parallel_chunks = 1
    /\ calls[1] = <<"raise", "raise">>
    /\ calls[2] = <<"ok">>
    /\ InFailed(1)
    /\ InSuccessful(2)

\* C3: at every moment of a run the number of chunks whose callback is
\* executing is at most max_parallel_chunks.
C3_BoundedConcurrency ==
    Cardinality(Executing) <= config.max_parallel_chunks

C3_Witness ==
    /\ Cardinality(Executing) = config.max_parallel_chunks
    /\ \E k \in Tasks : task_pc[k] = "acquire"
    /\ semaphore = 0

\* C4: the first callback invocations of any two distinct chunks start at
\* least rate_limit_delay apart: when a chunk's callback is first invoked,
\* at least rate_limit_delay has passed since the latest first invocation of
\* another chunk's callback.
C4_DispatchSpacing ==
    \A k \in Tasks :
        first_call_gap[k] # -1 => first_call_gap[k] >= config.rate_limit_delay

\* C5: a chunk whose callback raises on every invocation gets exactly
\* retry_attempts invocations, for any retry_attempts >= 0: never more, and
\* it is in failed_chunks only after the last of them.
C5_RetryExhaustion ==
    \A k \in Tasks :
        AlwaysRaised(k) =>
            /\ Invocations(k) <= config.retry_attempts
            /\ InFailed(k) => Invocations(k) = config.retry_attempts
            /\ RunReturned => InFailed(k)

C5_Witness ==
    /\ RunReturned
    /\ config.retry_attempts = 2
    /\ \E k \in Tasks : calls[k] = <<"raise", "raise">> /\ InFailed(k)

\* C6: a callback that returns a failure result instead of raising is
\* retried like a raised failure: a chunk whose callback never succeeded is
\* recorded in failed_chunks only after retry_attempts invocations.
C6_ReturnedFailureRetried ==
    \A k \in Tasks :
        (NeverSucceeded(k) /\ InFailed(k)) => Invocations(k) = config.retry_attempts

PositionOf(r) == CHOOSE k \in 1..Len(chunks) : chunks[k].chunk_id = r.chunk_id

InputOrdered(list) ==
    \A p, q \in 1..Len(list) : p < q => PositionOf(list[p]) < PositionOf(list[q])

\* C12: successful_chunks and failed_chunks are each ordered by the position
\* of their chunk in the input chunk list, whatever order the chunk tasks
\* finish in.
C12_SubmissionOrder ==
    /\ InputOrdered(results.successful_chunks)
    /\ InputOrdered(results.failed_chunks)

C12_Witness ==
    /\ RunReturned
    /\ overtook
    /\ Len(results.successful_chunks) = 2

C24_LinearBackoff ==
    \A k \in Tasks :
        /\ (task_pc[k] = "running" /\ attempt[k] >= 1) =>
               waited[k] >= config.retry_delay * attempt[k]
        /\ task_pc[k] = "running" => Len(calls[k]) = attempt[k]
        /\ task_pc[k] = "backoff" =>
               /\ attempt[k] < config.retry_attempts - 1
               /\ waited[k] + backoff[k] = config.retry_delay * (attempt[k] + 1)
        /\ (task_pc[k] = "done" /\ calls[k] # <<>> /\ AlwaysRaised(k)) => waited[k] = 0

C24_Witness ==
    /\ config.retry_attempts = 3
    /\ \E k \in Tasks :
           /\ task_pc[k] = "running"
           /\ calls[k] = <<"raise", "raise">>
           /\ waited[k] = 2 * config.retry_delay

RecordsReturned ==
    {results.successful_chunks[p] : p \in 1..Len(results.successful_chunks)}
    \cup {results.failed_chunks[p] : p \in 1..Len(results.failed_chunks)}

\* C25: every record returned carries the id of its chunk and an attempt
\* count; a successful record has the 1-based index of the invocation that
\* returned it; the record of a chunk whose every attempt raised has success
\* false, the text of the last exception and attempt = retry_attempts.
C25_RecordFields ==
    /\ \A r \in RecordsReturned :
           /\ {"chunk_id", "attempt"} \subseteq DOMAIN r
           /\ \E k \in Tasks : chunks[k].chunk_id = r.chunk_id /\ task_result[k] = r
    /\ \A k \in Tasks :
           /\ InSuccessful(k) =>
                  /\ task_result[k].success
                  /\ task_result[k].attempt = Len(calls[k])
                  /\ calls[k][Len(calls[k])] = "ok"
           /\ (InFailed(k) /\ calls[k] # <<>> /\ AlwaysRaised(k)) =>
                  /\ ~task_result[k].success
                  /\ task_result[k].error = ExceptionText(Len(calls[k]))
                  /\ task_result[k].attempt = config.retry_attempts

C25_Witness ==
    /\ RunReturned
    /\ \E j, k \in Tasks :
           /\ InSuccessful(j) /\ calls[j] = <<"raise", "ok">> /\ task_result[j].attempt = 2
           /\ InFailed(k) /\ calls[k] = <<"raise", "raise">>
           /\ task_result[k].error = "raised by invocation 2"

\* C29: the number of permits held equals the number of callbacks in
\* flight: a task in backoff, waiting for a permit or finished holds none.
C29_PermitOnlyWhileExecuting ==
    /\ semaphore = config.max_parallel_chunks - Cardinality(Executing)
    /\ semaphore >= 0
    /\ (\E k \in Tasks : task_pc[k] \in {"backoff", "done"}) =>
           (CanAcquire <=> Cardinality(Executing) < config.max_parallel_chunks)

C29_Witness ==
    /\ config.max_parallel_chunks = 1
    /\ \E j, k \in Tasks :
           /\ task_pc[j] = "backoff" /\ backoff[j] > 0
           /\ task_pc[k] = "running" /\ calls[k] = <<>>
    /\ semaphore = 0

\* C30: under fair scheduling, with every callback invocation returning or
\* raising in the end, every chunk task finishes and the run returns.
C30_Terminates ==
    <>(RunReturned /\ \A k \in Tasks : task_pc[k] = "done")

C30_Witness ==
    /\ RunReturned
    /\ Len(chunks) = 2
    /\ config.max_parallel_chunks = 1
    /\ \A k \in Tasks : task_pc[k] = "done" /\ calls[k] = <<"raise", "raise">>
    /\ semaphore = 1 /\ ~rate_limit_lock


---------------------------------------------------------------------------
(* merge_chunk_results                                                     *)
(*                                                                         *)
(* A Python dict is a function on its keys, a list is a sequence.  A str   *)
(* found where a dict is expected is NotAMap.  The name and the type of a  *)
(* pattern are sequences of characters, so that the key of                 *)
(* _deduplicate_patterns is built as the f-string builds it.               *)

MaxResults == 2   \* longest chunk_results list

NotAMap == [py_type |-> "str"]

(* the value has the dict methods the code calls: get, items, values *)
IsDict(v) == "py_type" \notin DOMAIN v

Analyses ==
    { "a.html" :> [status |-> "success"],
      "a.html" :> [status |-> "error"],
      "b.css"  :> [status |-> "success"],
      ("a.html" :> [status |-> "success"]) @@ ("b.css" :> [status |-> "error"]) }

Pattern(name, type, file) == [name |-> name, type |-> type, file |-> file]

PatternLists ==
    { <<Pattern(<<"a">>, <<"c">>, 1)>>,
      <<Pattern(<<"a">>, <<"c">>, 2)>>,
      <<Pattern(<<"a">>, <<"b", ":", "c">>, 1)>>,
      <<Pattern(<<"a", ":", "b">>, <<"c">>, 1)>>,
      <<Pattern(<<"a">>, <<"c">>, 1), Pattern(<<"a">>, <<"c">>, 2)>> }

Dependencies ==
    { "npm" :> <<"react">>, "npm" :> <<"vue">>, "pip" :> <<"flask">> }

ChunkResults ==
    {NotAMap}
    \cup {[success |-> TRUE, file_analyses |-> fa] : fa \in Analyses}
    \cup {[success |-> TRUE, patterns |-> ps] : ps \in PatternLists}
    \cup {[success |-> TRUE, dependencies |-> d] : d \in Dependencies}
    \cup {[success |-> TRUE,
           file_analyses |-> "b.css" :> [status |-> "success"],
           patterns |-> <<Pattern(<<"a">>, <<"c">>, 1)>>,
           dependencies |-> "npm" :> <<"react">>]}
    \cup {[success |-> FALSE, error |-> "raised",
           file_analyses |-> "a.html" :> [status |-> "success"]],
          [file_analyses |-> "b.css" :> [status |-> "success"],
           patterns |-> <<Pattern(<<"a">>, <<"c">>, 2)>>],
          [success |-> FALSE, file_analyses |-> NotAMap]}
    \cup {[success |-> TRUE, file_analyses |-> NotAMap],
          [success |-> TRUE, dependencies |-> NotAMap],
          [success |-> TRUE, patterns |-> <<NotAMap>>]}

InitMerge ==
    /\ config = DefaultLimits
    /\ project_files = <<>>
    /\ chunks = <<>>
    /\ SplitIdle
    /\ RunIdle
    /\ chunk_results \in SeqsUpTo(ChunkResults, MaxResults)
    /\ merge_pc = "idle"
    /\ merged = EmptyMerged(0)
    /\ ChunkerIdle
    /\ AIIdle

(* line 263: the result is passed over *)
Skipped_never(chunk_result) == FALSE

Skipped(chunk_result) == ~Get(chunk_result, "success", FALSE)

(* line 268: dict.update *)
DictUpdate_replaces(d1, d2) == d2

DictUpdate(d1, d2) ==
    [k \in DOMAIN d1 \cup DOMAIN d2 |-> IF k \in DOMAIN d2 THEN d2[k] ELSE d1[k]]

(* lines 276-279 *)
ExtendDependencies(deps_so_far, chunk_deps) ==
    [t \in DOMAIN deps_so_far \cup DOMAIN chunk_deps |->
        (IF t \in DOMAIN deps_so_far THEN deps_so_far[t] ELSE <<>>)
        \o (IF t \in DOMAIN chunk_deps THEN chunk_deps[t] ELSE <<>>)]

(* line 283: the analyses of the chunk whose status is 'success' *)
SuccessCount(analyses) ==
    Cardinality({k \in DOMAIN analyses : Get(analyses[k], "status", "") = "success"})

(* lines 263-283 raise: chunk_result.get on a value that is no dict,       *)
(* dict.update with a str, or .items() of a str                            *)
LoopBodyRaises(chunk_result) ==
    \/ ~IsDict(chunk_result)
    \/ /\ ~Skipped(chunk_result)
       /\ \/ ~IsDict(Get(chunk_result, "file_analyses", <<>>))
          \/ ~IsDict(Get(chunk_result, "dependencies", <<>>))

(* lines 263-283: one iteration of the loop that does not raise *)
MergeOne(m, chunk_result) ==
    IF Skipped(chunk_result) THEN m
    ELSE LET chunk_analyses == Get(chunk_result, "file_analyses", <<>>)
             chunk_patterns == Get(chunk_result, "patterns", <<>>)
             chunk_deps     == Get(chunk_result, "dependencies", <<>>)
         IN  [m EXCEPT
                 !.file_analyses = DictUpdate(@, chunk_analyses),
                 !.patterns = @ \o chunk_patterns,
                 !.dependencies = ExtendDependencies(@, chunk_deps),
                 !.summary.total_files = @ + Cardinality(DOMAIN chunk_analyses),
                 !.summary.successful_files = @ + SuccessCount(chunk_analyses)]

(* lines 262-283: the loop from result i on; it stops where an iteration *)
(* raises                                                                *)
RECURSIVE MergeLoop(_, _, _)
MergeLoop(m, rs, i) ==
    IF i > Len(rs) THEN [raised |-> FALSE, merged |-> m]
    ELSE IF LoopBodyRaises(rs[i]) THEN [raised |-> TRUE, merged |-> m]
    ELSE MergeLoop(MergeOne(m, rs[i]), rs, i + 1)

(* line 298 *)
pattern_key(pattern) ==
    Get(pattern, "name", <<>>) \o <<":">> \o Get(pattern, "type", <<>>)

(* lines 297-301, from pattern i on *)
RECURSIVE DeduplicateFrom(_, _, _, _)
DeduplicateFrom(patterns, i, seen, unique_patterns) ==
    IF i > Len(patterns) THEN unique_patterns
    ELSE IF pattern_key(patterns[i]) \notin seen
    THEN DeduplicateFrom(patterns, i + 1, seen \cup {pattern_key(patterns[i])},
                         Append(unique_patterns, patterns[i]))
    ELSE DeduplicateFrom(patterns, i + 1, seen, unique_patterns)

_deduplicate_patterns(patterns) == DeduplicateFrom(patterns, 1, {}, <<>>)

(* line 298 raises: pattern.get on a list element that is no dict *)
DeduplicateRaises(patterns) ==
    \E i \in 1..Len(patterns) : ~IsDict(patterns[i])

(* lines 247-290: what the call does, raised or the dict returned *)
merge_chunk_results(rs) ==
    LET loop == MergeLoop(EmptyMerged(Len(rs)), rs, 1)
    IN  IF loop.raised \/ DeduplicateRaises(loop.merged.patterns)
        THEN [raised |-> TRUE, merged |-> EmptyMerged(0)]
        ELSE [raised |-> FALSE,
              merged |-> [loop.merged EXCEPT
                  !.summary.failed_files =
                      loop.merged.summary.total_files
                      - loop.merged.summary.successful_files,
                  !.patterns = _deduplicate_patterns(@)]]

MergeCall ==
    /\ merge_pc = "idle"
    /\ LET out == merge_chunk_results(chunk_results)
       IN  /\ merge_pc' = IF out.raised THEN "raised" ELSE "returned"
           /\ merged' = out.merged
    /\ UNCHANGED <<config, splitVars, runVars, chunk_results, chunkerVars, aiVars>>

NextMerge == MergeCall

SpecMerge == InitMerge /\ [][NextMerge]_vars

---------------------------------------------------------------------------
(* Properties of merge_chunk_results *)

MergeReturned == merge_pc = "returned"

Successful(r) == IsDict(r) /\ Get(r, "success", FALSE)

AnalysesOf(r) == Get(r, "file_analyses", <<>>)

\* C13: merging two successful results whose file_analyses have disjoint key
\* sets gives a file_analyses whose key set is the union of the two and in
\* which every key keeps its value, in either order of the two results.
C13_DisjointUnion ==
    (/\ MergeReturned
     /\ Len(chunk_results) = 2
     /\ Successful(chunk_results[1]) /\ Successful(chunk_results[2])
     /\ DOMAIN AnalysesOf(chunk_results[1]) \cap DOMAIN AnalysesOf(chunk_results[2]) = {})
    => LET a == AnalysesOf(chunk_results[1])
           b == AnalysesOf(chunk_results[2])
           swapped == merge_chunk_results(<<chunk_results[2], chunk_results[1]>>)
       IN  /\ DOMAIN merged.file_analyses = DOMAIN a \cup DOMAIN b
           /\ \A k \in DOMAIN a : merged.file_analyses[k] = a[k]
           /\ \A k \in DOMAIN b : merged.file_analyses[k] = b[k]
           /\ ~swapped.raised
           /\ swapped.merged.file_analyses = merged.file_analyses

C13_Witness ==
    /\ MergeReturned
    /\ Len(chunk_results) = 2
    /\ Successful(chunk_results[1]) /\ Successful(chunk_results[2])
    /\ DOMAIN AnalysesOf(chunk_results[1]) = {"b.css"}
    /\ DOMAIN AnalysesOf(chunk_results[2]) = {"a.html"}
    /\ DOMAIN merged.file_analyses = {"a.html", "b.css"}

(* the patterns reported by the successful results, in chunk order *)
RECURSIVE ReportedFrom(_, _)
ReportedFrom(rs, i) ==
    IF i > Len(rs) THEN <<>>
    ELSE (IF Successful(rs[i]) THEN Get(rs[i], "patterns", <<>>) ELSE <<>>)
         \o ReportedFrom(rs, i + 1)

NameAndType(p) == <<Get(p, "name", <<>>), Get(p, "type", <<>>)>>

(* the first occurrence of every (name, type) pair, in order *)
FirstOccurrences(ps) ==
    LET IsFirst(i) == \A j \in 1..(i - 1) : NameAndType(ps[j]) # NameAndType(ps[i])
        RECURSIVE From(_)
        From(i) == IF i > Len(ps) THEN <<>>
                   ELSE (IF IsFirst(i) THEN <<ps[i]>> ELSE <<>>) \o From(i + 1)
    IN  From(1)

\* C14: of the patterns reported by the successful chunks, the merged
\* patterns keep exactly one occurrence of every (name, type) pair, the
\* first one in chunk order, in the order of the first occurrences.
C14_OnePerNameAndType ==
    MergeReturned =>
        merged.patterns = FirstOccurrences(ReportedFrom(chunk_results, 1))

NotFailed(r) == ~(IsDict(r) /\ ~Get(r, "success", FALSE))

(* the list without the results whose success flag is false or missing *)
WithoutFailed(rs) == SelectSeq(rs, NotFailed)

\* C15 as claimed: the call returns the same aggregate, every summary field
\* included, as for the list without the results whose success flag is
\* false or missing.
C15_FailedExcluded ==
    MergeReturned => merged = merge_chunk_results(WithoutFailed(chunk_results)).merged

\* C15 as amended: for the list and for the list without its failed
\* results the call raises in the same cases, and where it returns it
\* returns the same file_analyses, patterns, dependencies, total_files,
\* successful_files and failed_files; summary.total_chunks is the length of
\* the list passed, failed results included.
C15_FailedExcludedButCounted ==
    merge_pc # "idle" =>
        LET other == merge_chunk_results(WithoutFailed(chunk_results))
        IN  /\ (merge_pc = "raised") <=> other.raised
            /\ MergeReturned =>
                   /\ merged.file_analyses = other.merged.file_analyses
                   /\ merged.patterns = other.merged.patterns
                   /\ merged.dependencies = other.merged.dependencies
                   /\ merged.summary.total_files = other.merged.summary.total_files
                   /\ merged.summary.successful_files = other.merged.summary.successful_files
                   /\ merged.summary.failed_files = other.merged.summary.failed_files
                   /\ merged.summary.total_chunks = Len(chunk_results)

C15_Witness ==
    /\ MergeReturned
    /\ Len(chunk_results) = 2
    /\ Successful(chunk_results[1])
    /\ DOMAIN AnalysesOf(chunk_results[1]) = {"b.css"}
    /\ IsDict(chunk_results[2]) /\ ~Successful(chunk_results[2])
    /\ DOMAIN AnalysesOf(chunk_results[2]) = {"a.html"}
    /\ DOMAIN merged.file_analyses = {"b.css"}
    /\ merged.summary.total_chunks = 2

\* C16: summary.total_files is the number of keys of the merged
\* file_analyses and summary.successful_files the number of merged entries
\* with status 'success', also when a key is reported by several chunks.
C16_CountsFromMerged ==
    MergeReturned =>
        /\ merged.summary.total_files = Cardinality(DOMAIN merged.file_analyses)
        /\ merged.summary.successful_files = SuccessCount(merged.file_analyses)

(* the result, its file_analyses or its dependencies is no dict, or its *)
(* patterns is not a list of dicts                                      *)
MalformedPayload(r) ==
    \/ ~IsDict(r)
    \/ ~IsDict(Get(r, "file_analyses", <<>>))
    \/ ~IsDict(Get(r, "dependencies", <<>>))
    \/ DeduplicateRaises(Get(r, "patterns", <<>>))

WellFormedPayload(r) == ~MalformedPayload(r)

\* C19: when a result of the list has a malformed payload, the call skips
\* it and returns the merge of the other results instead of raising.
C19_MalformedSkipped ==
    (merge_pc # "idle"
       /\ \E i \in 1..Len(chunk_results) : MalformedPayload(chunk_results[i]))
    => LET others == merge_chunk_results(SelectSeq(chunk_results, WellFormedPayload))
       IN  /\ MergeReturned
           /\ merged.file_analyses = others.merged.file_analyses
           /\ merged.patterns = others.merged.patterns
           /\ merged.dependencies = others.merged.dependencies

---------------------------------------------------------------------------
(* FileChunker                                                             *)
(*                                                                         *)
(* A string is a sequence of characters; NL is the newline character.      *)

MaxContent   == 5   \* longest content
MaxChunkSize == 3   \* largest max_chunk_size

NL == "\n"

Chars == {"a", NL}

(* content.split('\n'): the lines of s from position i on, cur being the *)
(* line read so far                                                      *)
RECURSIVE SplitFrom(_, _, _)
SplitFrom(s, i, cur) ==
    IF i > Len(s) THEN <<cur>>
    ELSE IF s[i] = NL THEN <<cur>> \o SplitFrom(s, i + 1, <<>>)
    ELSE SplitFrom(s, i + 1, Append(cur, s[i]))

SplitLines(s) == SplitFrom(s, 1, <<>>)

(* '\n'.join(parts) *)
RECURSIVE JoinLines_noSeparator(_)
JoinLines_noSeparator(parts) ==
    IF parts = <<>> THEN <<>>
    ELSE Head(parts) \o JoinLines_noSeparator(Tail(parts))

RECURSIVE JoinLines(_)
JoinLines(parts) ==
    IF parts = <<>> THEN <<>>
    ELSE IF Len(parts) = 1 THEN Head(parts)
    ELSE Head(parts) \o <<NL>> \o JoinLines(Tail(parts))

(* the dict of lines 327-332 and 342-347 *)
FilePiece(chunk_lines, chunk_index) ==
    [file_path |-> chunk_index, content |-> JoinLines(chunk_lines),
     chunk_index |-> chunk_index]

(* lines 322-347: the loop from line i on, and the final chunk *)
RECURSIVE ChunkLines(_, _, _, _, _, _)
ChunkLines(lines, i, chunk_lines, current_size, chunk_index, pieces) ==
    IF i > Len(lines)
    THEN IF chunk_lines # <<>>
         THEN Append(pieces, FilePiece(chunk_lines, chunk_index))
         ELSE pieces
    ELSE LET line_size == Len(lines[i]) + 1
         IN  IF current_size + line_size > max_chunk_size /\ chunk_lines # <<>>
             THEN ChunkLines(lines, i + 1, <<lines[i]>>, line_size, chunk_index + 1,
                             Append(pieces, FilePiece(chunk_lines, chunk_index)))
             ELSE ChunkLines(lines, i + 1, Append(chunk_lines, lines[i]),
                             current_size + line_size, chunk_index, pieces)

(* lines 311-349 *)
split_large_file(text) ==
    IF Len(text) <= max_chunk_size
    THEN <<[file_path |-> 0, content |-> text, chunk_index |-> 0]>>
    ELSE ChunkLines(SplitLines(text), 1, <<>>, 0, 0, <<>>)

(* sorted(chunks, key=chunk_index): stable, ascending *)
RECURSIVE InsertByIndex(_, _)
InsertByIndex(ordered, piece) ==
    IF ordered = <<>> THEN <<piece>>
    ELSE IF Get(piece, "chunk_index", 0) < Get(Head(ordered), "chunk_index", 0)
    THEN <<piece>> \o ordered
    ELSE <<Head(ordered)>> \o InsertByIndex(Tail(ordered), piece)

RECURSIVE SortByIndex(_)
SortByIndex(pieces) ==
    IF pieces = <<>> THEN <<>>
    ELSE InsertByIndex(SortByIndex(SubSeq(pieces, 1, Len(pieces) - 1)),
                       pieces[Len(pieces)])

(* lines 351-359 *)
merge_file_chunks(pieces) ==
    LET ordered == SortByIndex(pieces)
    IN  JoinLines([k \in 1..Len(ordered) |-> Get(ordered[k], "content", <<>>)])

InitChunker ==
    /\ config = DefaultLimits
    /\ project_files = <<>>
    /\ chunks = <<>>
    /\ SplitIdle
    /\ RunIdle
    /\ MergeIdle
    /\ AIIdle
    /\ max_chunk_size \in 1..MaxChunkSize
    /\ content \in SeqsUpTo(Chars, MaxContent)
    /\ chunker_pc = "idle"
    /\ file_chunks = <<>>
    /\ merge_order = <<>>
    /\ merged_content = <<>>

SplitFile ==
    /\ chunker_pc = "idle"
    /\ file_chunks' = split_large_file(content)
    /\ chunker_pc' = "split"
    /\ UNCHANGED <<config, splitVars, runVars, mergeVars, aiVars, max_chunk_size,
                   content, merge_order, merged_content>>

(* the pieces are handed to merge_file_chunks in any order *)
MergeFile ==
    /\ chunker_pc = "split"
    /\ \E order \in Permutations(1..Len(file_chunks)) :
           /\ merge_order' = [k \in 1..Len(file_chunks) |-> order[k]]
           /\ merged_content' =
                  merge_file_chunks([k \in 1..Len(file_chunks) |-> file_chunks[order[k]]])
    /\ chunker_pc' = "merged"
    /\ UNCHANGED <<config, splitVars, runVars, mergeVars, aiVars, max_chunk_size,
                   content, file_chunks>>

NextChunker == SplitFile \/ MergeFile

SpecChunker == InitChunker /\ [][NextChunker]_vars

\* C26: merge_file_chunks(split_large_file(path, content)) is content, in
\* whatever order the pieces are passed, and the pieces carry the
\* chunk_index values 0..n-1 in order.
C26_RoundTrip ==
    /\ chunker_pc # "idle" =>
           \A k \in 1..Len(file_chunks) : file_chunks[k].chunk_index = k - 1
    /\ chunker_pc = "merged" => merged_content = content

C26_Witness ==
    /\ chunker_pc = "merged"
    /\ Len(file_chunks) = 3
    /\ merge_order = <<3, 1, 2>>
    /\ content = <<"a", NL, NL, "a", "a">>
    /\ merged_content = content

---------------------------------------------------------------------------
(* AI._rate_limit and AI._make_request                                     *)
(*                                                                         *)
(* Several coroutines share one AI instance.  Time is counted in ticks     *)
(* relative to the present: ai_since_last is now - self._last_request,     *)
(* saturated at rate_limit_delay, which is where the comparison of line 67 *)
(* stops telling values apart.  _last_request starts at 0.0, an            *)
(* arbitrarily long time ago.  since_request and request_gap are history   *)
(* variables: the time since the latest API request began, and for each    *)
(* caller the time between its latest request and the request before it.   *)

MaxCallers  == 2   \* coroutines sharing the AI instance
MaxRequests == 2   \* requests (first tries and retries) made by one caller

Callers == 1..MaxCallers

NoRequest == -1

SaturatingTick(t) == IF t < AIRateDelay THEN t + 1 ELSE t

InitAI ==
    /\ config = DefaultLimits
    /\ project_files = <<>>
    /\ chunks = <<>>
    /\ SplitIdle
    /\ RunIdle
    /\ MergeIdle
    /\ ChunkerIdle
    /\ ai_pc = [c \in Callers |-> "idle"]
    /\ requests_made = [c \in Callers |-> 0]
    /\ ai_since_last = AIRateDelay
    /\ ai_sleep = [c \in Callers |-> 0]
    /\ since_request = AIRateDelay
    /\ request_gap = [c \in Callers |-> NoRequest]

(* line 69 and the API call that follows it without a suspension *)
IssueRequest(c) ==
    /\ ai_since_last' = 0
    /\ ai_pc' = [ai_pc EXCEPT ![c] = "requesting"]
    /\ requests_made' = [requests_made EXCEPT ![c] = @ + 1]
    /\ request_gap' = [request_gap EXCEPT ![c] = since_request]
    /\ since_request' = 0

(* lines 65-69 up to the first suspension: the sleep of line 68, or the *)
(* API call when no sleep is due                                        *)
AICall(c) ==
    /\ ai_pc[c] = "idle"
    /\ requests_made[c] < MaxRequests
    /\ IF ai_since_last < AIRateDelay
       THEN /\ ai_sleep' = [ai_sleep EXCEPT ![c] = AIRateDelay - ai_since_last]
            /\ ai_pc' = [ai_pc EXCEPT ![c] = "sleeping"]
            /\ UNCHANGED <<requests_made, ai_since_last, since_request, request_gap>>
       ELSE /\ IssueRequest(c)
            /\ UNCHANGED ai_sleep
    /\ UNCHANGED <<config, splitVars, runVars, mergeVars, chunkerVars>>

(* the sleep of line 68 is over *)
AIWake(c) ==
    /\ ai_pc[c] = "sleeping"
    /\ ai_sleep[c] = 0
    /\ IssueRequest(c)
    /\ UNCHANGED <<config, splitVars, runVars, mergeVars, chunkerVars, ai_sleep>>

(* lines 77-108: the API call returns, or raises and the caller backs off *)
(* before its next try                                                    *)
AIResponse(c) ==
    /\ ai_pc[c] = "requesting"
    /\ ai_pc' = [ai_pc EXCEPT ![c] =
                     IF requests_made[c] < MaxRequests THEN "idle" ELSE "done"]
    /\ UNCHANGED <<config, splitVars, runVars, mergeVars, chunkerVars,
                   requests_made, ai_since_last, ai_sleep, since_request, request_gap>>

(* one tick passes; a sleep that is over wakes first *)
AITick ==
    /\ \E c \in Callers : ai_pc[c] # "done"
    /\ \A c \in Callers : ai_pc[c] = "sleeping" => ai_sleep[c] > 0
    /\ \/ ai_since_last < AIRateDelay
       \/ \E c \in Callers : ai_pc[c] = "sleeping"
    /\ ai_since_last' = SaturatingTick(ai_since_last)
    /\ since_request' = SaturatingTick(since_request)
    /\ ai_sleep' = [c \in Callers |->
                        IF ai_pc[c] = "sleeping" THEN ai_sleep[c] - 1 ELSE ai_sleep[c]]
    /\ UNCHANGED <<config, splitVars, runVars, mergeVars, chunkerVars,
                   ai_pc, requests_made, request_gap>>

NextAI ==
    \/ \E c \in Callers : AICall(c)
    \/ \E c \in Callers : AIWake(c)
    \/ \E c \in Callers : AIResponse(c)
    \/ AITick

SpecAI == InitAI /\ [][NextAI]_vars

\* C27: any two API requests issued through one AI instance begin at least
\* rate_limit_delay apart, also when several coroutines call concurrently.
C27_RequestSpacing ==
    \A c \in Callers :
        request_gap[c] # NoRequest => request_gap[c] >= AIRateDelay

=============================================================================
